---- MODULE Spec2Model ----
(***************************************************************************)
(* A model of mona, a parser-combinator library (src/src/mona.js).         *)
(*                                                                         *)
(* JavaScript values are records tagged by the field t.  A property read   *)
(* obj.name is Get(obj, name): a missing property reads as Undefined, as   *)
(* it does in JavaScript.  A string is the sequence of its units: the      *)
(* input has one unit per character; messages, type tags and names are     *)
(* never indexed by the code and are kept as a single unit.                *)
(*                                                                         *)
(* A parser is a syntax tree ([op |-> ...]); Run(p, s) is the call p(s).   *)
(* Run returns the value the call produces (out) together with the list    *)
(* of calls it made (log), so that "f is never invoked" or "pi is run on   *)
(* the original state" are statements about the log.                       *)
(***************************************************************************)
EXTENDS Integers, Sequences, FiniteSets, TLC

VARIABLES
  string,    \* the input: of the initial state, and given to parse
  opts,      \* the options parse was called with
  state,     \* the parser state threaded through the applied parsers
  last,      \* the last parser applied: the parser, the state it got, its calls
  tokens,    \* number of token() applications so far if nothing else was
             \* applied and all of them succeeded, otherwise -1
  steps,     \* number of parser applications so far
  outcome    \* what parse did: nothing yet, returned a value, threw a value

vars == <<string, opts, state, last, tokens, steps, outcome>>

(***************************************************************************)
(* Bounds                                                                  *)
(***************************************************************************)
MaxLen == 2      \* longest input
MaxSteps == 2    \* most parser applications threaded on one state

(***************************************************************************)
(* JavaScript values                                                       *)
(***************************************************************************)
Undefined == [t |-> "undefined"]
Bool(b) == [t |-> "boolean", b |-> b]
Str(u) == [t |-> "string", u |-> u]
TypeError == [t |-> "TypeError"]
List(xs) == [t |-> "array", xs |-> xs]

Get(obj, name) == IF name \in DOMAIN obj THEN obj[name] ELSE Undefined

Truthy(v) ==
  CASE v.t = "undefined" -> FALSE
    [] v.t = "boolean" -> v.b
    [] v.t = "string" -> Len(v.u) > 0
    [] OTHER -> TRUE

\* The result of a call that threw instead of returning.
Thrown(exc) == [t |-> "throw", exc |-> exc]
IsThrown(v) == v.t = "throw"

\* The result of a call that never returns (a loop without end): as with
\* an exception, nothing that follows the call is run.
Loops == Thrown([t |-> "loop"])

(***************************************************************************)
(* Internals (mona.js, "Internals")                                        *)
(***************************************************************************)
\* copy: a new object with the prototype and the own enumerable properties
\* of obj.  A function has no own enumerable property; its copy is a plain
\* object that is no longer callable.
copy(obj) == IF obj.t = "function" THEN [t |-> "object"] ELSE obj

\* attr(obj, name, arg) with three arguments; a function argument is
\* modelled by the value it returns for obj[name].
attr(obj, name, arg) ==
  LET c == copy(obj)
  IN [k \in (DOMAIN c) \cup {name} |-> IF k = name THEN arg ELSE c[k]]

\* new SourcePosition(name): line and column are omitted at the only call.
SourcePosition(name) ==
  [t |-> "SourcePosition", name |-> name, line |-> 1, column |-> 1]

ParseError(pos, messages, type) ==
  [t |-> "ParseError", position |-> pos, messages |-> messages, type |-> type]

mergeErrors(err1, err2) ==
  IF ~Truthy(err1) \/ (Len(err1.messages) = 0 /\ Len(err2.messages) > 0)
  THEN err2
  ELSE IF ~Truthy(err2) \/ (Len(err2.messages) = 0 /\ Len(err1.messages) > 0)
  THEN err1
  ELSE ParseError(Get(err1, "pos"), err1.messages \o err2.messages, Undefined)

ParserState(value, restOfInput, userState, position, hasConsumed, error) ==
  [t |-> "ParserState", value |-> value, restOfInput |-> restOfInput,
   position |-> position, userState |-> userState, error |-> error]

(***************************************************************************)
(* Parsers as syntax trees.  A continuation (the function given to bind)   *)
(* is a closure [k |-> ...]; Apply(fun, v) is the call fun(v).             *)
(***************************************************************************)
Value(val) == [op |-> "value", val |-> val]
Fail(msg, type) == [op |-> "fail", msg |-> msg, type |-> type]
Token == [op |-> "token"]
Eof == [op |-> "eof"]
Bind(parser, fun) == [op |-> "bind", parser |-> parser, fun |-> fun]
Or(parsers) == [op |-> "or", parsers |-> parsers]

\* and(firstParser, ...moreParsers): a bind whose continuation closes over
\* moreParsers.
And(parsers) ==
  Bind(Head(parsers), [k |-> "and", moreParsers |-> Tail(parsers)])

\* satisfies(predicate): a bind of token() whose continuation closes over
\* the predicate.
Satisfies(predicate) == Bind(Token, [k |-> "satisfies", predicate |-> predicate])
Character(x) == Satisfies([pred |-> "character", x |-> x])
OneOf(chars) == Satisfies([pred |-> "oneOf", chars |-> chars])
Space == OneOf(Str(<<" ", "\t", "\n", "\r">>))

\* The conversion of a value to a string: String.prototype.indexOf converts
\* its argument.  An array is its elements joined by ",", with undefined as
\* the empty string; a function is its source text, which no bag of
\* characters holds; any other object is "[object Object]".
RECURSIVE toString(_)
RECURSIVE Join(_)
Join(xs) ==
  IF xs = <<>> THEN <<>>
  ELSE LET x == IF Head(xs).t = "undefined" THEN <<>> ELSE toString(Head(xs))
       IN IF Len(xs) = 1 THEN x ELSE x \o <<",">> \o Join(Tail(xs))
toString(v) ==
  CASE v.t = "string" -> v.u
    [] v.t = "undefined" -> <<"u", "n", "d", "e", "f", "i", "n", "e", "d">>
    [] v.t = "boolean" -> IF v.b THEN <<"t", "r", "u", "e">>
                          ELSE <<"f", "a", "l", "s", "e">>
    [] v.t = "array" -> Join(v.xs)
    [] v.t = "function" -> <<"function(parserState) {...}">>
    [] OTHER -> <<"[", "o", "b", "j", "e", "c", "t", " ",
                  "O", "b", "j", "e", "c", "t", "]">>

\* str.indexOf(w) is not -1: w occurs in str (the empty string occurs in
\* every string, at index 0).
Occurs(w, str) ==
  \E i \in 0..(Len(str) - Len(w)) : SubSeq(str, i + 1, i + Len(w)) = w

\* chars.indexOf(x) is not -1.  A string searches for the conversion of x
\* to a string; an array searches for an element strictly equal to x, and
\* no array or object is strictly equal to the one a parser made.
IndexOfFinds(chars, x) ==
  IF chars.t = "string" THEN Occurs(toString(x), chars.u)
  ELSE /\ x.t \in {"string", "undefined", "boolean"}
       /\ \E i \in 1..Len(chars.xs) : chars.xs[i] = x

\* The call predicate(c) for the predicates of character (x === y) and
\* oneOf (~chars.indexOf(x)), as the test if (predicate(c)) reads it.
Predicate(predicate, c) ==
  CASE predicate.pred = "character" -> predicate.x = c
    [] predicate.pred = "oneOf" -> IndexOfFinds(predicate.chars, c)

\* maybe(parser) is or(parser, value()).
Maybe_ValueFirst(parser) == Or(<<Value(Undefined), parser>>)
Maybe(parser) == Or(<<parser, Value(Undefined)>>)

Not(parser) == [op |-> "not", parser |-> parser]
ZeroOrMore(parser) == [op |-> "zeroOrMore", parser |-> parser]

\* sequence(fun): the builder fun is the list of the parsers it gives to s,
\* in call order, and a closure ret that makes the parser it returns from
\* the values s returned.
Sequence(calls, ret) == [op |-> "sequence", steps |-> calls, ret |-> ret]

\* [x].concat(xs)
concat_DropsFirst(x, xs) == IF xs.t = "array" THEN List(xs.xs) ELSE List(<<xs>>)
concat(x, xs) == IF xs.t = "array" THEN List(<<x>> \o xs.xs) ELSE List(<<x, xs>>)

\* y + x for two strings
Plus(y, x) == Str(y.u \o x.u)

OneOrMore(parser) ==
  Sequence(<<parser, ZeroOrMore(parser)>>, [k |-> "concat"])
SeparatedBy(parser, separator) ==
  Sequence(<<parser, ZeroOrMore(And(<<separator, parser>>))>>, [k |-> "concat"])

\* string(str): character(str[0]), then string(str.substr(1)), then
\* value(str); value("") for the empty string.
RECURSIVE String(_)
String(str) ==
  IF Len(str.u) = 0 THEN Value(Str(<<>>))
  ELSE Sequence(<<Character(Str(<<Head(str.u)>>)), String(Str(Tail(str.u)))>>,
                [k |-> "const", parser |-> Value(str)])

\* The parser a builder returns, given the values s returned to it.
Return(ret, vals) ==
  CASE ret.k = "concat" -> Value(concat(vals[1], vals[2]))
    [] ret.k = "yx" -> Value(Plus(vals[2], vals[1]))
    [] ret.k = "const" -> ret.parser

\* Continuations written by a caller of bind: function(v) { return parser; }
\* and function(v) { return value(v); }.
Const(parser) == [k |-> "const", parser |-> parser]
Unit == [k |-> "unit"]

Apply(fun, result) ==
  CASE fun.k = "and" ->
         IF Len(fun.moreParsers) > 0 THEN And(fun.moreParsers) ELSE Value(result)
    [] fun.k = "satisfies" ->
         IF Predicate(fun.predicate, result)
         THEN Value(result)
         ELSE Fail(Str(<<"token does not match predicate">>), Undefined)
    [] fun.k = "const" -> fun.parser
    [] fun.k = "unit" -> Value(result)

(***************************************************************************)
(* Core parsers: what the parser returned by each function does to the     *)
(* state it is called with.                                                *)
(***************************************************************************)
value(val, parserState) == attr(parserState, "value", val)

fail(msg, type, parserState) ==
  LET m == IF Truthy(msg) THEN msg ELSE Str(<<"parser error">>)
      ty == IF Truthy(type) THEN type ELSE Str(<<"failure">>)
  IN attr(parserState, "error",
          mergeErrors(Get(parserState, "error"),
                      ParseError(Get(parserState, "position"), <<m>>, ty)))

\* The position after consuming one unit (token, the newline rule).
newPosition_KeepsColumn(position, unit) ==
  IF unit = "\n"
  THEN [position EXCEPT !.line = position.line + 1]
  ELSE [position EXCEPT !.column = position.column + 1]
newPosition(position, unit) ==
  IF unit = "\n"
  THEN [position EXCEPT !.column = 1, !.line = position.line + 1]
  ELSE [position EXCEPT !.column = position.column + 1]

token(parserState) ==
  LET input == Get(parserState, "restOfInput")
      position == Get(parserState, "position")
  IN IF input.t # "string"
     THEN Thrown(TypeError)                   \* input.length of undefined
     ELSE IF Len(input.u) > 0
     THEN IF position.t # "SourcePosition"
          THEN Thrown(TypeError)              \* copy(undefined)
          ELSE attr(attr(attr(parserState,
                 "value", Str(<<Head(input.u)>>)),
                 "restOfInput", Str(Tail(input.u))),
                 "position", newPosition(position, Head(input.u)))
     ELSE fail(Str(<<"unexpected eof">>), Str(<<"eof">>), parserState)

\* With input left, eof returns the parser made by fail, not a state: a
\* function object, which has none of the properties of a state.
eof(parserState) ==
  IF ~Truthy(Get(parserState, "restOfInput"))
  THEN attr(parserState, "value", Bool(TRUE))
  ELSE [t |-> "function"]

(***************************************************************************)
(* Combinators                                                             *)
(***************************************************************************)
\* Entries of the call log.
Called(p, s) == [ev |-> "parser", p |-> p, s |-> s]
Invoked(fun, arg) == [ev |-> "fun", fun |-> fun, arg |-> arg]

\* or: whether the next alternative is tried after res, and on which state.
orRetry_StopsEarly(res, parsers) ==
  Truthy(Get(res, "error")) /\ Len(parsers) > 2
orRetry(res, parsers) == Truthy(Get(res, "error")) /\ Len(parsers) > 1
orRetryState_NoBacktrack(res, parserState) == res
orRetryState(res, parserState) == parserState

\* bind: the argument of fun and the state its parser is run on.
bindArgument(newParserState) == Get(newParserState, "value")

\* not: the state the result is made from.
notState_KeepsConsumed(res, parserState) == res
notState(res, parserState) == parserState

\* sequence: whether the step function s throws failwhale.
sAborts_Never(state_) == FALSE
sAborts(state_) == Truthy(Get(state_, "error"))

\* zeroOrMore: whether the loop goes on after s, the state the next
\* application is run on, and the state the result is made from.
loopContinues(s) == ~Truthy(Get(s, "error"))
loopNext_Restarts(s, parserState) == parserState
loopNext(s, parserState) == s
loopResult_KeepsFailed(prev, s) == s
loopResult(prev, s) == prev

RECURSIVE Run(_, _)
RECURSIVE RunSteps(_, _, _)
RECURSIVE Loop(_, _, _, _, _, _)

\* The calls s(parser) of a builder, from state_ on: the state reached, the
\* values returned, and whether the builder ran to its end.
RunSteps(calls, state_, vals) ==
  IF calls = <<>>
  THEN [state |-> state_, vals |-> vals, log |-> <<>>, done |-> TRUE]
  ELSE LET r == Run(Head(calls), state_)
           rest == RunSteps(Tail(calls), r.out,
                            Append(vals, Get(r.out, "value")))
       IN IF IsThrown(r.out) \/ sAborts(r.out)
          THEN [state |-> r.out, vals |-> vals, log |-> r.log, done |-> FALSE]
          ELSE [state |-> rest.state, vals |-> rest.vals,
                log |-> r.log \o rest.log, done |-> rest.done]

\* The loop of zeroOrMore with s, prev and res as they are before the next
\* application; seen holds the states the loop has been in.  The parser is
\* a function of the state, so a state met twice is met forever.
Loop(parser, parserState, s, prev, res, seen) ==
  LET r == Run(parser, s)
      next == loopNext(r.out, parserState)
      more == Loop(parser, parserState, next, r.out,
                   Append(res, Get(r.out, "value")), seen \cup {next})
      ret == Run(Value(List(res)), loopResult(prev, r.out))
  IN IF IsThrown(r.out)
     THEN [out |-> r.out, log |-> r.log]
     ELSE IF ~loopContinues(r.out)
     THEN [out |-> ret.out, log |-> r.log \o ret.log]
     ELSE IF next \in seen
     THEN [out |-> Loops, log |-> r.log]
     ELSE [out |-> more.out, log |-> r.log \o more.log]

Run(p, s) ==
  LET self == <<Called(p, s)>>
  IN CASE p.op = "value" -> [out |-> value(p.val, s), log |-> self]
       [] p.op = "fail" -> [out |-> fail(p.msg, p.type, s), log |-> self]
       [] p.op = "token" -> [out |-> token(s), log |-> self]
       [] p.op = "eof" -> [out |-> eof(s), log |-> self]
       [] p.op = "bind" ->
            LET r == Run(p.parser, s)
                arg == bindArgument(r.out)
                r2 == Run(Apply(p.fun, arg), r.out)
            IN IF IsThrown(r.out)
               THEN [out |-> r.out, log |-> self \o r.log]
               ELSE [out |-> r2.out,
                     log |-> self \o r.log \o <<Invoked(p.fun, arg)>> \o r2.log]
       [] p.op = "or" ->
            LET r == Run(p.parsers[1], s)
                r2 == Run(Or(Tail(p.parsers)), orRetryState(r.out, s))
            IN IF IsThrown(r.out)
               THEN [out |-> r.out, log |-> self \o r.log]
               ELSE IF orRetry(r.out, p.parsers)
               THEN [out |-> r2.out, log |-> self \o r.log \o r2.log]
               ELSE [out |-> r.out, log |-> self \o r.log]
       [] p.op = "not" ->
            LET r == Run(p.parser, s)
                r2 == IF Truthy(Get(r.out, "error"))
                      THEN Run(Value(Bool(TRUE)), notState(r.out, s))
                      ELSE Run(Fail(Str(<<"expected parser to fail">>), Undefined),
                               notState(r.out, s))
            IN IF IsThrown(r.out)
               THEN [out |-> r.out, log |-> self \o r.log]
               ELSE [out |-> r2.out, log |-> self \o r.log \o r2.log]
       [] p.op = "sequence" ->
            LET b == RunSteps(p.steps, s, <<>>)
                r2 == Run(Return(p.ret, b.vals), b.state)
            IN IF ~b.done
               THEN [out |-> b.state, log |-> self \o b.log]
               ELSE [out |-> r2.out, log |-> self \o b.log \o r2.log]
       [] p.op = "zeroOrMore" ->
            LET l == Loop(p.parser, s, s, s, <<>>, {s})
            IN [out |-> l.out, log |-> self \o l.log]

(***************************************************************************)
(* API: parse(parser, string, opts)                                        *)
(***************************************************************************)
\* The state parse constructs for its parser.
NewState(str, o) ==
  ParserState(Undefined, str, Get(o, "userState"),
              SourcePosition(Get(o, "fileName")), Bool(FALSE), Undefined)

DefaultOpts(o) ==
  IF Truthy(o) THEN o ELSE [t |-> "object", throwOnError |-> Bool(TRUE)]

\* What parse does with the state its parser returned.
Unwrap(parseState, o) ==
  IF parseState = Loops
  THEN [kind |-> "never", val |-> parseState.exc]
  ELSE IF IsThrown(parseState)
  THEN [kind |-> "throw", val |-> parseState.exc]
  ELSE IF Truthy(Get(parseState, "error")) /\ Truthy(Get(o, "throwOnError"))
  THEN [kind |-> "throw", val |-> Get(parseState, "error")]
  ELSE IF Truthy(Get(parseState, "error")) /\ ~Truthy(Get(o, "throwOnError"))
  THEN [kind |-> "return", val |-> Get(parseState, "error")]
  ELSE [kind |-> "return", val |-> Get(parseState, "value")]

parse(parser, str, o) ==
  Unwrap(Run(parser, NewState(str, DefaultOpts(o))).out, DefaultOpts(o))

(***************************************************************************)
(* The inputs the model draws from                                         *)
(***************************************************************************)
Units == {"a", "\n"}
Inputs == {Str(w) : w \in UNION {[1..n -> Units] : n \in 0..MaxLen}}

Options ==
  { Undefined,
    [t |-> "object", throwOnError |-> Bool(TRUE)],
    [t |-> "object", throwOnError |-> Bool(FALSE)],
    [t |-> "object", fileName |-> Str(<<"f">>)],
    [t |-> "object", throwOnError |-> Bool(FALSE), userState |-> Str(<<"u">>)] }

Nop == Str(<<"nop">>)
Hi == Str(<<"hi">>)
Vals == {Undefined, Str(<<"x">>), Str(<<>>)}
Msgs == {Undefined, Nop}
Types == {Undefined, Str(<<"criticalExplosion">>)}

Atoms == {Value(Str(<<"x">>)), Fail(Nop, Undefined), Token, Eof}
Funs == {Unit, Const(Fail(Hi, Undefined))}
Predicates ==
  { [pred |-> "character", x |-> Str(<<"a">>)],
    [pred |-> "character", x |-> Str(<<"\n">>)],
    [pred |-> "oneOf", chars |-> Str(<<" ", "\t", "\n", "\r">>)] }

\* Arguments of and: parsers that consume, fail, or return no state.
AndArgs ==
  {<<Token>>} \cup {<<p, q>> : p, q \in {Token, Fail(Nop, Undefined)}}
    \cup {<<Token, q, r>> : q, r \in {Token, Fail(Hi, Undefined)}}
    \cup {<<Eof, q>> : q \in {Token, Fail(Nop, Undefined)}}
    \cup {<<Value(Str(<<"x">>)), Eof>>}

\* Arguments of or: a first alternative that fails, with or without having
\* consumed input, or succeeds; then alternatives of every kind.
Failing ==
  { Fail(Nop, Undefined), Character(Str(<<"a">>)),
    And(<<Token, Fail(Hi, Undefined)>>) }
OrArgs ==
  {<<p>> : p \in {Token, Character(Str(<<"a">>))}}
    \cup {<<p, q>> : p \in Failing, q \in Atoms}
    \cup {<<Token, Value(Str(<<"x">>))>>, <<Eof, Token>>}
    \cup {<<p, q, r>> : p \in {Fail(Nop, Undefined), Character(Str(<<"a">>))},
                        q \in {Fail(Nop, Undefined), Character(Str(<<"\n">>))},
                        r \in {Fail(Hi, Undefined), Token}}

Parsers ==
  Atoms \cup {Bind(p, f) : p \in Atoms, f \in Funs}
    \cup {And(ps) : ps \in AndArgs} \cup {Or(ps) : ps \in OrArgs}
    \cup {Satisfies(pr) : pr \in Predicates}

(***************************************************************************)
(* The state machine.  A behaviour is either one call of parse, or a       *)
(* chain of parsers applied by hand, each to the state the previous one    *)
(* returned, starting from a state constructed as parse constructs it.     *)
(***************************************************************************)
NoParser == [op |-> "none"]
NoCall == [t |-> "nocall"]

\* The options the initial state of a chain is constructed from.
InitOptions ==
  { [t |-> "object", throwOnError |-> Bool(TRUE)],
    [t |-> "object", fileName |-> Str(<<"f">>), userState |-> Str(<<"u">>)] }

Init ==
  /\ string \in Inputs
  /\ opts = NoCall
  /\ \E o \in InitOptions : state = NewState(string, o)
  /\ last = [p |-> NoParser, s |-> Undefined, log |-> <<>>]
  /\ tokens = 0
  /\ steps = 0
  /\ outcome = [kind |-> "none"]

Failed(s) == IsThrown(s) \/ Truthy(Get(s, "error"))

\* A parser can be applied by hand while no call has thrown, at most
\* MaxSteps times; a chain of successful token() calls runs to the end of
\* the input.
CanApply(p) ==
  /\ outcome.kind = "none"
  /\ ~IsThrown(state)
  /\ steps < MaxSteps \/ (p = Token /\ tokens >= 0)

\* The record of the call p(state).
Applied(p) == [p |-> p, s |-> state, log |-> Run(p, state).log]

Counted(p) ==
  IF p = Token /\ tokens >= 0 /\ ~Failed(Run(p, state).out)
  THEN tokens + 1 ELSE -1

ApplyValue ==
  \E val \in Vals :
    /\ CanApply(Value(val))
    /\ state' = Run(Value(val), state).out
    /\ last' = Applied(Value(val))
    /\ tokens' = Counted(Value(val))
    /\ steps' = steps + 1
    /\ UNCHANGED <<string, opts, outcome>>

ApplyFail ==
  \E msg \in Msgs, type \in Types :
    /\ CanApply(Fail(msg, type))
    /\ state' = Run(Fail(msg, type), state).out
    /\ last' = Applied(Fail(msg, type))
    /\ tokens' = Counted(Fail(msg, type))
    /\ steps' = steps + 1
    /\ UNCHANGED <<string, opts, outcome>>

ApplyToken ==
  /\ CanApply(Token)
  /\ state' = Run(Token, state).out
  /\ last' = Applied(Token)
  /\ tokens' = Counted(Token)
  /\ steps' = steps + 1
  /\ UNCHANGED <<string, opts, outcome>>

ApplyEof ==
  /\ CanApply(Eof)
  /\ state' = Run(Eof, state).out
  /\ last' = Applied(Eof)
  /\ tokens' = Counted(Eof)
  /\ steps' = steps + 1
  /\ UNCHANGED <<string, opts, outcome>>

ApplyBind ==
  \E parser \in Atoms, fun \in Funs :
    /\ CanApply(Bind(parser, fun))
    /\ state' = Run(Bind(parser, fun), state).out
    /\ last' = Applied(Bind(parser, fun))
    /\ tokens' = Counted(Bind(parser, fun))
    /\ steps' = steps + 1
    /\ UNCHANGED <<string, opts, outcome>>

ApplyAnd ==
  \E parsers \in AndArgs :
    /\ CanApply(And(parsers))
    /\ state' = Run(And(parsers), state).out
    /\ last' = Applied(And(parsers))
    /\ tokens' = Counted(And(parsers))
    /\ steps' = steps + 1
    /\ UNCHANGED <<string, opts, outcome>>

ApplyOr ==
  \E parsers \in OrArgs :
    /\ CanApply(Or(parsers))
    /\ state' = Run(Or(parsers), state).out
    /\ last' = Applied(Or(parsers))
    /\ tokens' = Counted(Or(parsers))
    /\ steps' = steps + 1
    /\ UNCHANGED <<string, opts, outcome>>

ApplySatisfies ==
  \E predicate \in Predicates :
    /\ CanApply(Satisfies(predicate))
    /\ state' = Run(Satisfies(predicate), state).out
    /\ last' = Applied(Satisfies(predicate))
    /\ tokens' = Counted(Satisfies(predicate))
    /\ steps' = steps + 1
    /\ UNCHANGED <<string, opts, outcome>>

\* parse(parser, string, opts)
Parse ==
  \E parser \in Parsers, o \in Options :
    /\ outcome.kind = "none"
    /\ steps = 0
    /\ LET r == Run(parser, NewState(string, DefaultOpts(o)))
       IN /\ state' = r.out
          /\ last' = [p |-> parser, s |-> NewState(string, DefaultOpts(o)),
                      log |-> r.log]
    /\ outcome' = parse(parser, string, o)
    /\ opts' = o
    /\ tokens' = -1
    /\ steps' = 1
    /\ UNCHANGED string

Next ==
  \/ ApplyValue
  \/ ApplyFail
  \/ ApplyToken
  \/ ApplyEof
  \/ ApplyBind
  \/ ApplyAnd
  \/ ApplyOr
  \/ ApplySatisfies
  \/ Parse

Spec == Init /\ [][Next]_vars

(***************************************************************************)
(* The combinators built on the core: not, maybe, sequence, zeroOrMore,    *)
(* oneOrMore, separatedBy.  They are applied by hand like the core         *)
(* parsers, to initial states and to states token() or fail() returned.    *)
(***************************************************************************)
\* Inputs that are lists: n times "a", separated by newlines.
RECURSIVE Separated(_)
Separated(n) == IF n = 1 THEN <<"a">> ELSE Separated(n - 1) \o <<"\n", "a">>
ListInputs == {Str(Separated(n)) : n \in 1..MaxLen}

InitCombinators ==
  /\ string \in Inputs \cup ListInputs
  /\ opts = NoCall
  /\ \E o \in InitOptions : state = NewState(string, o)
  /\ last = [p |-> NoParser, s |-> Undefined, log |-> <<>>]
  /\ tokens = 0
  /\ steps = 0
  /\ outcome = [kind |-> "none"]

\* Parsers that succeed, fail at once, fail after consuming, or succeed
\* without consuming.
Repeated ==
  { Token, Character(Str(<<"a">>)), And(<<Token, Fail(Hi, Undefined)>>),
    Fail(Nop, Undefined), Value(Str(<<"x">>)), Eof }
Tested ==
  { Token, Character(Str(<<"a">>)), And(<<Token, Fail(Hi, Undefined)>>),
    Fail(Nop, Undefined), And(<<Eof, Token>>), Space }
Builders ==
  { Sequence(<<Token, Token>>, [k |-> "yx"]),
    Sequence(<<Token>>, [k |-> "const", parser |-> Token]),
    Sequence(<<Token, Fail(Nop, Undefined), Token>>,
             [k |-> "const", parser |-> Value(Str(<<"x">>))]),
    String(Str(<<"a", "\n">>)), String(Str(<<"a", "a">>)) }
SeparatedArgs ==
  { <<Token, Character(Str(<<"\n">>))>>,
    <<Character(Str(<<"a">>)), Character(Str(<<"\n">>))>>,
    <<Character(Str(<<"\n">>)), Character(Str(<<"a">>))>>,
    <<Token, Fail(Nop, Undefined)>> }

ApplyNot ==
  \E parser \in Tested :
    /\ CanApply(Not(parser))
    /\ state' = Run(Not(parser), state).out
    /\ last' = Applied(Not(parser))
    /\ tokens' = Counted(Not(parser))
    /\ steps' = steps + 1
    /\ UNCHANGED <<string, opts, outcome>>

ApplyMaybe ==
  \E parser \in Tested :
    /\ CanApply(Maybe(parser))
    /\ state' = Run(Maybe(parser), state).out
    /\ last' = Applied(Maybe(parser))
    /\ tokens' = Counted(Maybe(parser))
    /\ steps' = steps + 1
    /\ UNCHANGED <<string, opts, outcome>>

ApplySequence ==
  \E builder \in Builders :
    /\ CanApply(builder)
    /\ state' = Run(builder, state).out
    /\ last' = Applied(builder)
    /\ tokens' = Counted(builder)
    /\ steps' = steps + 1
    /\ UNCHANGED <<string, opts, outcome>>

ApplyZeroOrMore ==
  \E parser \in Repeated :
    /\ CanApply(ZeroOrMore(parser))
    /\ state' = Run(ZeroOrMore(parser), state).out
    /\ last' = Applied(ZeroOrMore(parser))
    /\ tokens' = Counted(ZeroOrMore(parser))
    /\ steps' = steps + 1
    /\ UNCHANGED <<string, opts, outcome>>

ApplyOneOrMore ==
  \E parser \in Repeated :
    /\ CanApply(OneOrMore(parser))
    /\ state' = Run(OneOrMore(parser), state).out
    /\ last' = Applied(OneOrMore(parser))
    /\ tokens' = Counted(OneOrMore(parser))
    /\ steps' = steps + 1
    /\ UNCHANGED <<string, opts, outcome>>

ApplySeparatedBy ==
  \E args \in SeparatedArgs :
    /\ CanApply(SeparatedBy(args[1], args[2]))
    /\ state' = Run(SeparatedBy(args[1], args[2]), state).out
    /\ last' = Applied(SeparatedBy(args[1], args[2]))
    /\ tokens' = Counted(SeparatedBy(args[1], args[2]))
    /\ steps' = steps + 1
    /\ UNCHANGED <<string, opts, outcome>>

NextCombinators ==
  \/ ApplyToken
  \/ ApplyFail
  \/ ApplyNot
  \/ ApplyMaybe
  \/ ApplySequence
  \/ ApplyZeroOrMore
  \/ ApplyOneOrMore
  \/ ApplySeparatedBy

SpecCombinators == InitCombinators /\ [][NextCombinators]_vars

(***************************************************************************)
(* Properties.  They speak about the last parser applied: last.p was       *)
(* called with last.s, made the calls in last.log and returned state.      *)
(***************************************************************************)
HasError(s) == Truthy(Get(s, "error"))
IsState(s) == s.t = "ParserState"
Messages(s) == IF HasError(s) THEN Get(s, "error").messages ELSE <<>>
Range(seq) == {seq[i] : i \in 1..Len(seq)}

\* C1: bind(p, f) on s: if p(s) carries an error, f is never invoked and the
\* result is exactly p(s); f is invoked, with p's value, only when p(s) has
\* no error.
C1_BindShortCircuits ==
  (last.p.op = "bind" /\ last.p.fun.k \in {"unit", "const"}) =>
    LET r == Run(last.p.parser, last.s)
        invocations == {e \in Range(last.log) : e.ev = "fun" /\ e.fun = last.p.fun}
    IN /\ HasError(r.out) => (invocations = {} /\ state = r.out)
       /\ \A e \in invocations : ~HasError(r.out) /\ e.arg = Get(r.out, "value")

\* The alternatives of or(p1, ..., pn) that are tried on s: all up to the
\* first one whose result carries no error, or all n if there is none.
Tried(parsers, s) ==
  LET ok == {i \in 1..Len(parsers) : ~HasError(Run(parsers[i], s).out)}
  IN IF ok = {} THEN Len(parsers)
     ELSE CHOOSE i \in ok : \A j \in ok : i <= j

\* The calls made when alternatives i..k are each run on s.
RECURSIVE AlternativesLog(_, _, _, _)
AlternativesLog(parsers, s, i, k) ==
  IF i > k THEN <<>>
  ELSE <<Called(Or(SubSeq(parsers, i, Len(parsers))), s)>>
         \o Run(parsers[i], s).log \o AlternativesLog(parsers, s, i + 1, k)

\* C2: or(p1, ..., pn) on s runs every alternative it tries on the original
\* state s, never on what a failed earlier alternative left; the result is
\* that of the first alternative that succeeds, and no later one is run.
C2_OrBacktracks ==
  last.p.op = "or" =>
    LET k == Tried(last.p.parsers, last.s)
    IN /\ state = Run(last.p.parsers[k], last.s).out
       /\ last.log = AlternativesLog(last.p.parsers, last.s, 1, k)

\* The first alternative consumed input and failed, the second succeeded
\* on the original input, and a third alternative was left untried.
C2_Witness ==
  /\ last.p.op = "or"
  /\ Len(last.p.parsers) = 3
  /\ IsState(last.s)
  /\ LET r1 == Run(last.p.parsers[1], last.s).out
     IN HasError(r1) /\ r1.restOfInput # last.s.restOfInput
  /\ ~HasError(state)
  /\ state = Run(last.p.parsers[2], last.s).out
  /\ state.restOfInput # last.s.restOfInput

AllFail(parsers, s) ==
  \A i \in 1..Len(parsers) : HasError(Run(parsers[i], s).out)

\* C3 as stated: when every alternative of or(p1, ..., pn) fails, the error
\* of the result contains the messages of all n alternatives.
C3_OrMergesAllErrors ==
  (last.p.op = "or" /\ AllFail(last.p.parsers, last.s)) =>
    \A i \in 1..Len(last.p.parsers) :
      Range(Messages(Run(last.p.parsers[i], last.s).out)) \subseteq
        Range(Messages(state))

\* C3 amended: when every alternative of or(p1, ..., pn) fails, the result
\* is the failed state of the last alternative run on the original state:
\* its error is pn's error alone.
C3_OrReturnsLastError ==
  (last.p.op = "or" /\ AllFail(last.p.parsers, last.s)) =>
    state = Run(last.p.parsers[Len(last.p.parsers)], last.s).out

\* Three alternatives failed on a state without error, and a message of
\* the first one is not among the messages of the result.
C3_Witness ==
  /\ last.p.op = "or"
  /\ Len(last.p.parsers) = 3
  /\ IsState(last.s) /\ ~HasError(last.s)
  /\ AllFail(last.p.parsers, last.s)
  /\ HasError(state)
  /\ \E m \in Range(Messages(Run(last.p.parsers[1], last.s).out)) :
       m \notin Range(Messages(state))

\* The parsers given to and, read back from the bind it builds.
IsAnd(p) == p.op = "bind" /\ p.fun.k = "and"
AndParsers(p) == <<p.parser>> \o p.fun.moreParsers

\* The state after p1, ..., pi have run one after the other from s.
RECURSIVE Threaded(_, _, _)
Threaded(parsers, s, i) ==
  IF i = 0 THEN s ELSE Run(parsers[i], Threaded(parsers, s, i - 1)).out

\* C4: and(p1, ..., pn) on a state without error: if pi is the first parser
\* that fails, no later parser is run and the result is exactly pi's failed
\* state; if all succeed, each starts where the previous one ended and the
\* value is pn's.
C4_AndShortCircuits ==
  (IsAnd(last.p) /\ IsState(last.s) /\ ~HasError(last.s)) =>
    LET parsers == AndParsers(last.p)
        failing == {i \in 1..Len(parsers) : HasError(Threaded(parsers, last.s, i))}
        first == CHOOSE i \in failing : \A j \in failing : i <= j
    IN IF failing # {}
       THEN /\ state = Threaded(parsers, last.s, first)
            /\ \A e \in Range(last.log) :
                 (e.ev = "parser" /\ HasError(e.s)) =>
                   e.p \notin {parsers[j] : j \in (first + 1)..Len(parsers)}
       ELSE /\ Get(state, "restOfInput") =
                 Get(Threaded(parsers, last.s, Len(parsers)), "restOfInput")
            /\ Get(state, "value") =
                 Get(Threaded(parsers, last.s, Len(parsers)), "value")

\* C5: eof() returns a parse state: on empty input it succeeds with value
\* true, on other input it fails with messages ["expected an eof"] and type
\* "expectation" (and parse reports that error); input and position are
\* unchanged.
C5_EofResult ==
  (last.p = Eof /\ IsState(last.s) /\ ~HasError(last.s)) =>
    /\ IsState(state)
    /\ Get(state, "restOfInput") = last.s.restOfInput
    /\ Get(state, "position") = last.s.position
    /\ IF Len(last.s.restOfInput.u) = 0
       THEN ~HasError(state) /\ Get(state, "value") = Bool(TRUE)
       ELSE /\ HasError(state)
            /\ Messages(state) = <<Str(<<"expected an eof">>)>>
            /\ Get(state, "error").type = Str(<<"expectation">>)
            /\ outcome.kind # "none" => outcome.val = Get(state, "error")

\* The number of newlines in w, and the column after consuming w.
RECURSIVE Newlines(_)
Newlines(w) ==
  IF w = <<>> THEN 0
  ELSE (IF w[Len(w)] = "\n" THEN 1 ELSE 0) + Newlines(SubSeq(w, 1, Len(w) - 1))
RECURSIVE SinceNewline(_)
SinceNewline(w) ==
  IF w = <<>> \/ w[Len(w)] = "\n" THEN 0
  ELSE 1 + SinceNewline(SubSeq(w, 1, Len(w) - 1))

\* C6: after k successful token() applications threaded from the initial
\* state over input w: the remaining input is w without its first k units,
\* the value is the k-th unit, line = 1 + newlines among the first k units,
\* column = 1 + units consumed after the last consumed newline; each step
\* follows the newline rule and leaves userState and error alone.
C6_TokenPosition ==
  tokens >= 1 =>
    LET w == string.u
        k == tokens
    IN /\ IsState(state)
       /\ state.restOfInput = Str(SubSeq(w, k + 1, Len(w)))
       /\ state.value = Str(<<w[k]>>)
       /\ state.position.line = 1 + Newlines(SubSeq(w, 1, k))
       /\ state.position.column = 1 + SinceNewline(SubSeq(w, 1, k))
       /\ state.position.name = last.s.position.name
       /\ IF w[k] = "\n"
          THEN /\ state.position.line = last.s.position.line + 1
               /\ state.position.column = 1
          ELSE /\ state.position.line = last.s.position.line
               /\ state.position.column = last.s.position.column + 1
       /\ state.userState = last.s.userState
       /\ state.error = last.s.error /\ ~HasError(state)

\* Two tokens were consumed, a newline and then another unit: line 2,
\* column 2.
C6_Witness ==
  /\ tokens = 2
  /\ string.u[1] = "\n" /\ string.u[2] = "a"
  /\ state.position.line = 2 /\ state.position.column = 2
  /\ state.userState = Str(<<"u">>)

\* C7: value(v) always succeeds: on any state, also one that carries an
\* error, the result has no error, value v, and the same remaining input,
\* position and userState.
C7_ValueAlwaysSucceeds ==
  (last.p.op = "value" /\ IsState(last.s)) =>
    /\ ~HasError(state)
    /\ Get(state, "value") = last.p.val
    /\ Get(state, "restOfInput") = last.s.restOfInput
    /\ Get(state, "position") = last.s.position
    /\ Get(state, "userState") = last.s.userState

\* C8: fail(msg, type) on a state whose error has messages: the new error
\* has the old messages followed by [msg], and the type and position of
\* the new error; on a state without error (or with an error without
\* messages) the result is the new error alone.
C8_FailMerges ==
  (last.p.op = "fail" /\ IsState(last.s)) =>
    LET msg == IF Truthy(last.p.msg) THEN last.p.msg ELSE Str(<<"parser error">>)
        type == IF Truthy(last.p.type) THEN last.p.type ELSE Str(<<"failure">>)
        new == ParseError(last.s.position, <<msg>>, type)
    IN IF Len(Messages(last.s)) > 0
       THEN /\ Messages(state) = Messages(last.s) \o <<msg>>
            /\ Get(state, "error").type = type
            /\ Get(state, "error").position = last.s.position
       ELSE Get(state, "error") = new

\* C9: when the parser fails, parse raises the error unless throwOnError is
\* explicitly false (options omitted, throwOnError truthy, or options that
\* do not set throwOnError), and returns the error only when throwOnError
\* is false; when the parser succeeds it returns the parser's value.
C9_ThrowOnErrorDefault ==
  (outcome.kind # "none" /\ ~IsThrown(state)) =>
    IF HasError(state)
    THEN IF Get(opts, "throwOnError") = Bool(FALSE)
         THEN outcome = [kind |-> "return", val |-> Get(state, "error")]
         ELSE outcome = [kind |-> "throw", val |-> Get(state, "error")]
    ELSE outcome = [kind |-> "return", val |-> Get(state, "value")]

\* C10: every error parse raises or returns has a position with line >= 1
\* and column >= 1, at least one message, and a string type.
C10_ErrorWellFormed ==
  (outcome.kind # "none" /\ outcome.val.t = "ParseError") =>
    /\ outcome.val.position.t = "SourcePosition"
    /\ outcome.val.position.line >= 1
    /\ outcome.val.position.column >= 1
    /\ Len(outcome.val.messages) >= 1
    /\ outcome.val.type.t = "string"

(***************************************************************************)
(* Properties of the combinators, checked under SpecCombinators            *)
(***************************************************************************)
\* The calls made when steps i..k of a builder are run one after the other,
\* step j on the state step j-1 returned.
RECURSIVE StepsLog(_, _, _, _)
StepsLog(calls, s, i, k) ==
  IF i > k THEN <<>>
  ELSE Run(calls[i], Threaded(calls, s, i - 1)).log \o StepsLog(calls, s, i + 1, k)

\* The steps of a builder that stop it: those whose parser returns an error
\* or does not return.
Stopping(calls, s) ==
  {i \in 1..Len(calls) :
     HasError(Threaded(calls, s, i)) \/ IsThrown(Threaded(calls, s, i))}
FirstOf(set) == CHOOSE i \in set : \A j \in set : i <= j

\* C11: in sequence(builder) the steps run in call order on one threaded
\* state, each s(p) returning p's value; the first step whose parser fails
\* aborts the builder: no later step and not the returned parser is run,
\* and the result is that step's failed state; if every step succeeds the
\* result is the returned parser applied to the state after the last step.
C11_SequenceThreads ==
  last.p.op = "sequence" =>
    LET calls == last.p.steps
        n == Len(calls)
        stop == Stopping(calls, last.s)
        vals == [i \in 1..n |-> Get(Threaded(calls, last.s, i), "value")]
        returned == Run(Return(last.p.ret, vals), Threaded(calls, last.s, n))
    IN IF stop # {}
       THEN /\ state = Threaded(calls, last.s, FirstOf(stop))
            /\ last.log = <<Called(last.p, last.s)>>
                            \o StepsLog(calls, last.s, 1, FirstOf(stop))
       ELSE /\ state = returned.out
            /\ last.log = <<Called(last.p, last.s)>>
                            \o StepsLog(calls, last.s, 1, n) \o returned.log

\* A builder of three steps: the first consumed a unit, the second failed,
\* and the result is the second step's state, with the input the third
\* step would have consumed still there.
C11_Witness ==
  /\ last.p.op = "sequence"
  /\ Len(last.p.steps) = 3
  /\ IsState(last.s) /\ ~HasError(last.s)
  /\ ~HasError(Threaded(last.p.steps, last.s, 1))
  /\ Threaded(last.p.steps, last.s, 1).restOfInput # last.s.restOfInput
  /\ HasError(Threaded(last.p.steps, last.s, 2))
  /\ state = Threaded(last.p.steps, last.s, 2)
  /\ Len(state.restOfInput.u) > 0

\* The state after i applications of parser, each on the state the previous
\* one returned, starting from s.
RECURSIVE Iterated(_, _, _)
Iterated(parser, s, i) ==
  IF i = 0 THEN s ELSE Run(parser, Iterated(parser, s, i - 1)).out

\* The applications of parser that fail, among the first n.
FailingIn(parser, s, n) == {i \in 1..n : HasError(Iterated(parser, s, i))}

\* A repetition that returns has met a failing application within this many
\* applications: one per remaining unit, one that only sets a value, and
\* the failing one.
MaxApplications(s) == Len(s.restOfInput.u) + 2

\* C12: zeroOrMore(p) on a state without error succeeds whenever it
\* returns; its value is the list, in order, of the values of the
\* applications of p before the first failing one, and its remaining input
\* and position are those after the last successful application (of the
\* incoming state if there was none); the failing application's
\* consumption and error are not in the result.
C12_ZeroOrMoreResult ==
  (/\ last.p.op = "zeroOrMore"
   /\ IsState(last.s) /\ ~HasError(last.s)
   /\ ~IsThrown(state)) =>
    LET parser == last.p.parser
        failing == FailingIn(parser, last.s, MaxApplications(last.s))
        k == FirstOf(failing)
        before == Iterated(parser, last.s, k - 1)
    IN /\ failing # {}
       /\ ~HasError(state)
       /\ state.value = List([i \in 1..(k - 1) |->
                                Get(Iterated(parser, last.s, i), "value")])
       /\ state.restOfInput = before.restOfInput
       /\ state.position = before.position

\* A repetition whose parser succeeded, then consumed a unit and failed: the
\* result holds one value and still has the unit the failing application
\* consumed.
C12_Witness ==
  /\ last.p.op = "zeroOrMore"
  /\ IsState(last.s) /\ ~HasError(last.s)
  /\ IsState(state) /\ ~HasError(state)
  /\ ~HasError(Iterated(last.p.parser, last.s, 1))
  /\ HasError(Iterated(last.p.parser, last.s, 2))
  /\ Iterated(last.p.parser, last.s, 2).restOfInput
       # Iterated(last.p.parser, last.s, 1).restOfInput
  /\ state.value = List(<<Iterated(last.p.parser, last.s, 1).value>>)
  /\ state.restOfInput = Iterated(last.p.parser, last.s, 1).restOfInput
  /\ Len(state.restOfInput.u) > 0

\* C13: not(p) is a pure lookahead: on every state s without error the
\* result has the remaining input and position of s whatever p consumed;
\* it succeeds with value true exactly when p(s) fails, and fails with the
\* single message "expected parser to fail" exactly when p(s) succeeds;
\* p's own error is never in the result.
C13_NotLooksAhead ==
  (/\ last.p.op = "not"
   /\ IsState(last.s) /\ ~HasError(last.s)
   /\ ~IsThrown(Run(last.p.parser, last.s).out)) =>
    LET tried == Run(last.p.parser, last.s).out
    IN /\ IsState(state)
       /\ state.restOfInput = last.s.restOfInput
       /\ state.position = last.s.position
       /\ HasError(tried) =>
            /\ ~HasError(state)
            /\ state.value = Bool(TRUE)
       /\ ~HasError(tried) =>
            /\ HasError(state)
            /\ Messages(state) = <<Str(<<"expected parser to fail">>)>>

\* not(p) where p consumed a unit and then failed: the result is a success
\* with value true that still has the unit.
C13_Witness ==
  /\ last.p.op = "not"
  /\ IsState(last.s) /\ ~HasError(last.s)
  /\ HasError(Run(last.p.parser, last.s).out)
  /\ Run(last.p.parser, last.s).out.restOfInput # last.s.restOfInput
  /\ ~HasError(state)
  /\ state.value = Bool(TRUE)
  /\ state.restOfInput = last.s.restOfInput
  /\ Len(state.restOfInput.u) > 0

\* The state after parser has matched once and then j times more, each time
\* after a separator: separator and parser are applied one after the other.
RECURSIVE Matched(_, _, _, _)
Matched(parser, separator, s, j) ==
  IF j = 0 THEN Run(parser, s).out
  ELSE Run(parser, Run(separator, Matched(parser, separator, s, j - 1)).out).out

\* 'separator then parser' does not match after the j-th match of parser.
Unmatched(parser, separator, s, j) ==
  LET sep == Run(separator, Matched(parser, separator, s, j - 1)).out
  IN HasError(sep) \/ HasError(Run(parser, sep).out)

\* C14: separatedBy(p, sep) fails if the first application of p fails;
\* otherwise it succeeds with the list of p's values in input order,
\* separators discarded, stopping at the first point where 'sep then p' does
\* not match, and the remaining input is what follows the last matched p.
C14_SeparatedByResult ==
  \A args \in SeparatedArgs :
    (/\ last.p = SeparatedBy(args[1], args[2])
     /\ IsState(last.s)
     /\ ~IsThrown(state)) =>
      LET parser == args[1]
          separator == args[2]
          stops == {j \in 1..MaxApplications(last.s) :
                      Unmatched(parser, separator, last.s, j)}
          n == FirstOf(stops)
      IN IF HasError(Matched(parser, separator, last.s, 0))
         THEN HasError(state)
         ELSE /\ stops # {}
              /\ ~HasError(state)
              /\ state.value =
                   List([i \in 1..n |->
                           Matched(parser, separator, last.s, i - 1).value])
              /\ state.restOfInput =
                   Matched(parser, separator, last.s, n - 1).restOfInput
              /\ state.position =
                   Matched(parser, separator, last.s, n - 1).position

\* separatedBy(token(), character("\n")) on input "a\na": two values, the
\* separator between them discarded, nothing left.
C14_Witness ==
  /\ last.p = SeparatedBy(Token, Character(Str(<<"\n">>)))
  /\ IsState(last.s) /\ ~HasError(last.s)
  /\ last.s.restOfInput = Str(<<"a", "\n", "a">>)
  /\ ~HasError(state)
  /\ state.value = List(<<Str(<<"a">>), Str(<<"a">>)>>)
  /\ state.restOfInput = Str(<<>>)

\* C15: maybe(p) on a state s without error always succeeds: if p(s)
\* succeeds the result is p(s); if p(s) fails the result has value
\* undefined, no error, and the remaining input and position of s, so none
\* of p's partial consumption.
C15_MaybeSucceeds ==
  \A parser \in Tested :
    (/\ last.p = Maybe(parser)
     /\ IsState(last.s) /\ ~HasError(last.s)
     /\ ~IsThrown(Run(parser, last.s).out)) =>
      LET tried == Run(parser, last.s).out
      IN /\ ~HasError(state)
         /\ ~HasError(tried) => state = tried
         /\ HasError(tried) =>
              /\ IsState(state)
              /\ state.value = Undefined
              /\ state.restOfInput = last.s.restOfInput
              /\ state.position = last.s.position

\* maybe(p) where p consumed a unit and then failed: the result is a success
\* with value undefined that still has the unit.
C15_Witness ==
  \E parser \in Tested :
    /\ last.p = Maybe(parser)
    /\ IsState(last.s) /\ ~HasError(last.s)
    /\ HasError(Run(parser, last.s).out)
    /\ Run(parser, last.s).out.restOfInput # last.s.restOfInput
    /\ ~HasError(state)
    /\ state.value = Undefined
    /\ state.restOfInput = last.s.restOfInput
    /\ Len(state.restOfInput.u) > 0

\* The applications of parser that the loop of zeroOrMore counts, among the
\* first n: application i and all before it returned without error.
Successes(parser, s, n) ==
  {i \in 1..n : \A j \in 1..i : ~IsThrown(Iterated(parser, s, j))
                                  /\ ~HasError(Iterated(parser, s, j))}

\* Application i of parser left less input than it was given.
Consumed(parser, s, i) ==
  /\ IsState(Iterated(parser, s, i - 1))
  /\ IsState(Iterated(parser, s, i))
  /\ Len(Iterated(parser, s, i).restOfInput.u)
       < Len(Iterated(parser, s, i - 1).restOfInput.u)

\* C16: zeroOrMore(p) terminates on every finite input after at most
\* length(remaining input) successful iterations, provided every
\* successful application of p consumes at least one unit; the loop has no
\* other progress guard: a successful application that returns the state
\* it was given keeps the loop running for ever.
C16_ZeroOrMoreTerminates ==
  (last.p.op = "zeroOrMore" /\ IsState(last.s)) =>
    LET parser == last.p.parser
        counted == Successes(parser, last.s, MaxApplications(last.s))
    IN /\ (\A i \in counted : Consumed(parser, last.s, i)) =>
            /\ state # Loops
            /\ Cardinality(counted) <= Len(last.s.restOfInput.u)
            /\ IsState(state) => Len(state.value.xs) = Cardinality(counted)
       /\ (\E i \in counted :
             Iterated(parser, last.s, i) = Iterated(parser, last.s, i - 1)) =>
            state = Loops

\* zeroOrMore(token()) on at least two remaining units: every application
\* consumed one unit and the loop ended after as many iterations as there
\* were units.
C16_Witness ==
  /\ last.p = ZeroOrMore(Token)
  /\ IsState(last.s) /\ ~HasError(last.s)
  /\ Len(last.s.restOfInput.u) >= 2
  /\ IsState(state)
  /\ Len(state.value.xs) = Len(last.s.restOfInput.u)
  /\ state.restOfInput = Str(<<>>)

\* zeroOrMore applied to a parser that succeeds without consuming.
C16_NeverReturns == last.p.op = "zeroOrMore" /\ state = Loops

====
